---- MODULE Spec2Model ----
(***************************************************************************)
(* A model of pp_adaptors/opennlp.py: the text utilities (wraplines,       *)
(* longlines), the fuzzy comparisons (ascii_equal, loose_match, diagnose), *)
(* the span merger (apply_edits) and the batch driver (process_file,       *)
(* process_folder).                                                        *)
(*                                                                         *)
(* A Python string is a sequence of code points (integers).  The output of *)
(* apply_edits is a sequence of records [ch, mark]: mark is TRUE for the   *)
(* characters of an inserted tag marker and FALSE for characters copied    *)
(* from the text.                                                          *)
(***************************************************************************)
EXTENDS Integers, Sequences, FiniteSets, TLC

VARIABLES
    \* apply_edits
    text, edits, idx, offset, prevOffset, output, status,
    \* ascii_equal / loose_match / diagnose
    left, right, cmpOp, cmpResult,
    \* longlines / _iterlonglines
    lltext, collapse, pep479, chunks, chunkPos, yielded, llStatus,
    \* wraplines
    wtext, width, lines, lineNo, line, new, origin, wrapped, wpc,
    \* process_folder / process_file
    plaintext, fileNo, outcomes, written, batch

editVars   == <<text, edits, idx, offset, prevOffset, output, status>>
cmpVars    == <<left, right, cmpOp, cmpResult>>
longVars   == <<lltext, collapse, pep479, chunks, chunkPos, yielded, llStatus>>
wrapVars   == <<wtext, width, lines, lineNo, line, new, origin, wrapped, wpc>>
folderVars == <<plaintext, fileNo, outcomes, written, batch>>
vars       == <<editVars, cmpVars, longVars, wrapVars, folderVars>>

notCmpVars     == <<editVars, longVars, wrapVars, folderVars>>
notEditsVars   == <<cmpVars, longVars, wrapVars, folderVars>>
notLongVars    == <<editVars, cmpVars, wrapVars, folderVars>>
notWrapVars    == <<editVars, cmpVars, longVars, folderVars>>
notFolderVars  == <<editVars, cmpVars, longVars, wrapVars>>

----------------------------------------------------------------------------
(* Characters *)

TAB   == 9
NL    == 10
SP    == 32
TILDE == 126
NBSP  == 160
\* The padding value of zip_longest (fillvalue=""): no character at all.
Pad   == -1

\* Bounds of the model
MaxStr     == 2     \* longest string compared
MaxLen     == 3     \* longest text annotated
MaxEdits   == 2     \* most edits in a list
MaxText    == 4     \* longest text given to longlines
MaxWrapLen == 4     \* longest text given to wraplines
MaxWidth   == 3     \* largest wrap width
MaxFiles   == 2     \* most directory entries matched by the glob

Min(a, b) == IF a < b THEN a ELSE b
Max(a, b) == IF a > b THEN a ELSE b

Strings(alphabet, n) == UNION {[1..k -> alphabet] : k \in 0..n}

\* s[a:b] of Python for 0 <= a, 0 <= b (both clipped to the length).
Slice(s, a, b) ==
    LET lo == Min(a, Len(s))
        hi == Min(b, Len(s))
    IN  IF hi <= lo THEN <<>> ELSE [i \in 1..(hi - lo) |-> s[lo + i]]

\* s.replace(old, new) for single characters.
ReplaceChar(s, old, nw) == [i \in 1..Len(s) |-> IF s[i] = old THEN nw ELSE s[i]]

----------------------------------------------------------------------------
(* ascii_equal, loose_match, diagnose *)

\* _asciirange: the printable ASCII characters, space to tilde.
InAsciiRange(c) == c \in SP..TILDE

\* A-Z to a-z, as both translation tables do.
LowerChar(c) == IF c \in 65..90 THEN c + 32 ELSE c

\* The table local to ascii_equal: NBSP to space, upper to lower case.
AsciiTrChar(c) == IF c = NBSP THEN SP ELSE LowerChar(c)

\* The module-level tr_map used by loose_match: newline and NBSP to space,
\* upper to lower case.
LooseTrChar(c) == IF c = NL \/ c = NBSP THEN SP ELSE LowerChar(c)

\* zip_longest(l, r, fillvalue=""): the pairs, the shorter side padded.
ZipLongest(l, r) ==
    [i \in 1..Max(Len(l), Len(r)) |->
        <<IF i <= Len(l) THEN l[i] ELSE Pad, IF i <= Len(r) THEN r[i] ELSE Pad>>]

\* Mutant: the comparison without the ascii/non-ascii leniency.
ascii_equal_strict(l, r) ==
    LET paired == ZipLongest([i \in 1..Len(l) |-> AsciiTrChar(l[i])],
                             [i \in 1..Len(r) |-> AsciiTrChar(r[i])])
    IN  ~ \E i \in 1..Len(paired) : paired[i][1] # paired[i][2]

ascii_equal(l, r) ==
    LET paired == ZipLongest([i \in 1..Len(l) |-> AsciiTrChar(l[i])],
                             [i \in 1..Len(r) |-> AsciiTrChar(r[i])])
    IN  ~ \E i \in 1..Len(paired) :
            /\ InAsciiRange(paired[i][1]) = InAsciiRange(paired[i][2])
            /\ paired[i][1] # paired[i][2]

loose_match(l, r) ==
    LET paired == ZipLongest([i \in 1..Len(l) |-> LooseTrChar(l[i])],
                             [i \in 1..Len(r) |-> LooseTrChar(r[i])])
    IN  ~ \E i \in 1..Len(paired) : paired[i][1] # paired[i][2]

\* One element of zip_longest(..., fillvalue="") as the string it is.
CharStr(c) == IF c = Pad THEN <<>> ELSE <<c>>

\* diagnose: the positions whose characters ascii_equal tells apart ...
Mismatches(l, r) ==
    LET paired == ZipLongest(l, r)
    IN  {i \in 1..Len(paired) :
            ~ ascii_equal(CharStr(paired[i][1]), CharStr(paired[i][2]))}

\* ... and mismatches[0], which raises IndexError on an empty list.
diagnose(l, r) == IF Mismatches(l, r) = {} THEN "IndexError" ELSE "ok"

CmpAlphabet == {NL, SP, 65, 97, NBSP, 233}

InitCmp ==
    /\ left \in Strings(CmpAlphabet, MaxStr)
    /\ right \in Strings(CmpAlphabet, MaxStr)
    /\ cmpOp = "none"
    /\ cmpResult = "none"

IdleCmp == left = <<>> /\ right = <<>> /\ cmpOp = "done" /\ cmpResult = "none"

CallAsciiEqual ==
    /\ cmpOp = "none"
    /\ cmpOp' = "ascii_equal"
    /\ cmpResult' = IF ascii_equal(left, right) THEN "True" ELSE "False"
    /\ UNCHANGED <<left, right>>
    /\ UNCHANGED notCmpVars

CallLooseMatch ==
    /\ cmpOp = "none"
    /\ cmpOp' = "loose_match"
    /\ cmpResult' = IF loose_match(left, right) THEN "True" ELSE "False"
    /\ UNCHANGED <<left, right>>
    /\ UNCHANGED notCmpVars

CallDiagnose ==
    /\ cmpOp = "none"
    /\ cmpOp' = "diagnose"
    /\ cmpResult' = diagnose(left, right)
    /\ UNCHANGED <<left, right>>
    /\ UNCHANGED notCmpVars

NextCmp == CallAsciiEqual \/ CallLooseMatch \/ CallDiagnose

----------------------------------------------------------------------------
(* apply_edits *)

\* An edit is the 4-tuple (start, end, tag, match).  match is only tested for
\* truth and handed to ascii_equal, so None and "" are the same value here: <<>>.
None == <<>>

TextChars(s)   == [i \in 1..Len(s) |-> [ch |-> s[i], mark |-> FALSE]]
MarkerChars(s) == [i \in 1..Len(s) |-> [ch |-> s[i], mark |-> TRUE]]

\* tag.strip(): leading and trailing whitespace removed.
IsSpace(c) == c \in {TAB, NL, SP, 11, 12, 13, NBSP}
RECURSIVE LStrip(_)
LStrip(s) == IF s # <<>> /\ IsSpace(Head(s)) THEN LStrip(Tail(s)) ELSE s
RECURSIVE RStrip(_)
RStrip(s) ==
    IF s # <<>> /\ IsSpace(s[Len(s)]) THEN RStrip(SubSeq(s, 1, Len(s) - 1)) ELSE s
Strip(s) == LStrip(RStrip(s))

\* The default of the endtag parameter: " <END> ".
EndTag == <<SP, 60, 69, 78, 68, 62, SP>>

\* tag = " "+tag.strip()+" "
OpenTag(tag) == <<SP>> \o Strip(tag) \o <<SP>>

\* Mutant: the overlap test also rejects a span that starts at the cursor.
EditStepAdjacentOverlaps(txt, off, e) ==
    IF e.start <= off THEN [status |-> "overlap", offset |-> off, out |-> <<>>]
    ELSE IF e.end >= Len(txt) THEN [status |-> "bounds", offset |-> off, out |-> <<>>]
    ELSE LET content == Slice(txt, e.start, e.end + 1)
         IN  IF e.match # <<>> /\ ~ ascii_equal(ReplaceChar(content, NL, SP), e.match)
             THEN [status |-> "mismatch", offset |-> off, out |-> <<>>]
             ELSE [status |-> "running", offset |-> e.end + 1,
                   out |-> TextChars(Slice(txt, off, e.start))
                           \o MarkerChars(OpenTag(e.tag)) \o TextChars(content)
                           \o MarkerChars(EndTag)]

\* Mutant: the bounds test lets through a span that ends one past the text.
EditStepLateBounds(txt, off, e) ==
    IF e.start < off THEN [status |-> "overlap", offset |-> off, out |-> <<>>]
    ELSE IF e.end > Len(txt) THEN [status |-> "bounds", offset |-> off, out |-> <<>>]
    ELSE LET content == Slice(txt, e.start, e.end + 1)
         IN  IF e.match # <<>> /\ ~ ascii_equal(ReplaceChar(content, NL, SP), e.match)
             THEN [status |-> "mismatch", offset |-> off, out |-> <<>>]
             ELSE [status |-> "running", offset |-> e.end + 1,
                   out |-> TextChars(Slice(txt, off, e.start))
                           \o MarkerChars(OpenTag(e.tag)) \o TextChars(content)
                           \o MarkerChars(EndTag)]

\* Mutant: the inclusive end is used as a Python range end for the content
\* (no end += 1 before text[start:end]).
EditStepExclusiveEnd(txt, off, e) ==
    IF e.start < off THEN [status |-> "overlap", offset |-> off, out |-> <<>>]
    ELSE IF e.end >= Len(txt) THEN [status |-> "bounds", offset |-> off, out |-> <<>>]
    ELSE LET content == Slice(txt, e.start, e.end)
         IN  IF e.match # <<>> /\ ~ ascii_equal(ReplaceChar(content, NL, SP), e.match)
             THEN [status |-> "mismatch", offset |-> off, out |-> <<>>]
             ELSE [status |-> "running", offset |-> e.end + 1,
                   out |-> TextChars(Slice(txt, off, e.start))
                           \o MarkerChars(OpenTag(e.tag)) \o TextChars(content)
                           \o MarkerChars(EndTag)]

\* The body of the for loop for one edit, the cursor being at off: the three
\* raises, or the two pieces appended to output and the new cursor.
EditStep(txt, off, e) ==
    IF e.start < off THEN [status |-> "overlap", offset |-> off, out |-> <<>>]
    ELSE IF e.end >= Len(txt) THEN [status |-> "bounds", offset |-> off, out |-> <<>>]
    ELSE LET content == Slice(txt, e.start, e.end + 1)
         IN  IF e.match # <<>> /\ ~ ascii_equal(ReplaceChar(content, NL, SP), e.match)
             THEN [status |-> "mismatch", offset |-> off, out |-> <<>>]
             ELSE [status |-> "running", offset |-> e.end + 1,
                   out |-> TextChars(Slice(txt, off, e.start))
                           \o MarkerChars(OpenTag(e.tag)) \o TextChars(content)
                           \o MarkerChars(EndTag)]

\* The whole function on a list of edits: [status, out], out being the string
\* returned when status is "returned".
RECURSIVE ApplyFrom(_, _, _, _, _)
ApplyFrom(txt, es, k, off, out) ==
    IF k > Len(es)
    THEN [status |-> "returned", out |-> out \o TextChars(Slice(txt, off, Len(txt)))]
    ELSE LET r == EditStep(txt, off, es[k])
         IN  IF r.status # "running" THEN [status |-> r.status, out |-> <<>>]
             ELSE ApplyFrom(txt, es, k + 1, r.offset, out \o r.out)

apply_edits(txt, es) == ApplyFrom(txt, es, 1, 0, <<>>)

EditAlphabet == {97, NL}
Tags         == {<<84>>}
Matches      == {None, <<SP>>}

\* The edits remove_overlaps may hand back for a text: remove_overlaps belongs to
\* pp_api, so nothing is assumed of its result.
EditsFor(txt) ==
    [start : 0..Len(txt), end : (-1)..Len(txt), tag : Tags, match : Matches]

\* edits holds the edits the for statement has read so far, idx the place of
\* the next one.  The list is revealed one edit at a time, as the loop reads it.
InitEdits ==
    /\ text \in Strings(EditAlphabet, MaxLen)
    /\ edits = <<>>
    /\ idx = 1
    /\ offset = 0
    /\ prevOffset = 0
    /\ output = <<>>
    /\ status = "running"

IdleEdits ==
    /\ text = <<>> /\ edits = <<>> /\ idx = 1 /\ offset = 0 /\ prevOffset = 0
    /\ output = <<>> /\ status = "idle"

\* One iteration of the loop.  A raise unwinds the frame: output is dropped and
\* idx stays on the offending edit.
ApplyEdit ==
    /\ status = "running"
    /\ Len(edits) < MaxEdits
    /\ \E e \in EditsFor(text) :
        LET r == EditStep(text, offset, e)
        IN  /\ edits' = Append(edits, e)
            /\ status' = r.status
            /\ IF r.status = "running"
               THEN /\ idx' = idx + 1
                    /\ prevOffset' = offset
                    /\ offset' = r.offset
                    /\ output' = output \o r.out
               ELSE /\ output' = <<>>
                    /\ UNCHANGED <<idx, offset, prevOffset>>
    /\ UNCHANGED text
    /\ UNCHANGED notEditsVars

\* The list is exhausted: the tail is appended and the joined string returned.
ReturnAnnotated ==
    /\ status = "running"
    /\ status' = "returned"
    /\ output' = output \o TextChars(Slice(text, offset, Len(text)))
    /\ UNCHANGED <<text, edits, idx, offset, prevOffset>>
    /\ UNCHANGED notEditsVars

NextEdits == ApplyEdit \/ ReturnAnnotated

----------------------------------------------------------------------------
(* longlines, _iterlonglines *)

\* \s of the re module on a str: Unicode whitespace.
IsReSpace(c) == c \in {TAB, NL, SP, 11, 12, 13, NBSP}
IsBlank(c)   == c \in {SP, TAB}

\* The end of the longest run of characters satisfying the test from position
\* i on: the first position after it.
RECURSIVE RunEndSpace(_, _)
RunEndSpace(s, i) ==
    IF i <= Len(s) /\ IsReSpace(s[i]) THEN RunEndSpace(s, i + 1) ELSE i
RECURSIVE RunEndBlank(_, _)
RunEndBlank(s, i) ==
    IF i <= Len(s) /\ IsBlank(s[i]) THEN RunEndBlank(s, i + 1) ELSE i

\* A match of (\n\s*\n[ \t]*|\n[ \t]+) at position i: the first position after
\* the match, or 0 when there is none.  \s* is greedy and gives back just
\* enough for the second \n, which is then the last newline of the run.
SepEnd(s, i) ==
    IF s[i] # NL THEN 0
    ELSE LET j   == RunEndSpace(s, i + 1)
             nls == {k \in (i + 1)..(j - 1) : s[k] = NL}
         IN  IF nls # {}
             THEN RunEndBlank(s, (CHOOSE k \in nls : \A m \in nls : m <= k) + 1)
             ELSE IF i + 1 <= Len(s) /\ IsBlank(s[i + 1])
                  THEN RunEndBlank(s, i + 1)
                  ELSE 0

\* re.split with one capturing group: text, separator, text, ..., text.
RECURSIVE SplitFrom(_, _, _, _)
SplitFrom(s, i, cur, acc) ==
    IF i > Len(s) THEN Append(acc, cur)
    ELSE LET e == SepEnd(s, i)
         IN  IF e = 0 THEN SplitFrom(s, i + 1, Append(cur, s[i]), acc)
             ELSE SplitFrom(s, e, <<>>, acc \o <<cur, SubSeq(s, i, e - 1)>>)

ReSplit(s) == SplitFrom(s, 1, <<>>, <<>>)

\* re.sub(r"\s+", " ", s): each run of whitespace becomes one space.
RECURSIVE SubSpaces(_, _)
SubSpaces(s, i) ==
    IF i > Len(s) THEN <<>>
    ELSE IF IsReSpace(s[i]) THEN <<SP>> \o SubSpaces(s, RunEndSpace(s, i))
    ELSE <<s[i]>> \o SubSpaces(s, i + 1)

\* The string yielded for a text chunk.
OneLine(chunk, coll) ==
    LET unfolded == ReplaceChar(chunk, NL, SP)
    IN  IF coll THEN SubSpaces(Strip(unfolded), 1) ELSE unfolded

LongAlphabet == {97, SP, NL, TAB}

\* pep479: whether the interpreter turns a StopIteration that escapes a
\* generator body into RuntimeError (Python 3.7 and later) or lets it end the
\* generator silently (earlier versions).
InitLong ==
    /\ lltext \in Strings(LongAlphabet, MaxText)
    /\ collapse \in BOOLEAN
    /\ pep479 \in BOOLEAN
    /\ chunks = ReSplit(lltext)
    /\ chunkPos = 1
    /\ yielded = <<>>
    /\ llStatus = "running"

IdleLong ==
    /\ lltext = <<>> /\ collapse = FALSE /\ pep479 = FALSE /\ chunks = <<>>
    /\ chunkPos = 1 /\ yielded = <<>> /\ llStatus = "idle"

\* One turn of the for loop of _iterlonglines, joined by longlines: the line is
\* yielded, then next(chunks) either gives the line break, which is yielded, or
\* raises StopIteration inside the generator.
IterLongLine ==
    /\ llStatus = "running"
    /\ chunkPos <= Len(chunks)
    /\ LET oneline == OneLine(chunks[chunkPos], collapse)
       IN  IF chunkPos + 1 <= Len(chunks)
           THEN /\ yielded' = yielded \o oneline
                               \o (IF collapse THEN <<NL>> ELSE chunks[chunkPos + 1])
                /\ chunkPos' = chunkPos + 2
                /\ UNCHANGED llStatus
           ELSE /\ chunkPos' = chunkPos + 1
                /\ IF pep479
                   THEN llStatus' = "RuntimeError" /\ yielded' = <<>>
                   ELSE llStatus' = "returned" /\ yielded' = yielded \o oneline
    /\ UNCHANGED <<lltext, collapse, pep479, chunks>>
    /\ UNCHANGED notLongVars

NextLong == IterLongLine

----------------------------------------------------------------------------
(* wraplines *)

\* s.split("\n"): one more piece than there are newlines.
RECURSIVE SplitLinesFrom(_, _, _, _)
SplitLinesFrom(s, i, cur, acc) ==
    IF i > Len(s) THEN Append(acc, cur)
    ELSE IF s[i] = NL THEN SplitLinesFrom(s, i + 1, <<>>, Append(acc, cur))
    ELSE SplitLinesFrom(s, i + 1, Append(cur, s[i]), acc)

SplitLines(s) == SplitLinesFrom(s, 1, <<>>, <<>>)

\* "\n".join(ls)
RECURSIVE JoinLines(_)
JoinLines(ls) ==
    IF ls = <<>> THEN <<>>
    ELSE IF Len(ls) = 1 THEN ls[1]
    ELSE ls[1] \o <<NL>> \o JoinLines(Tail(ls))

\* Indices are Python's (from 0); -1 is "not found".
\* line.rfind(" ", 0, w): the last space among the first w characters.
RFindSpace(ln, w) ==
    LET at == {i \in 0..(Min(w, Len(ln)) - 1) : ln[i + 1] = SP}
    IN  IF at = {} THEN -1 ELSE CHOOSE i \in at : \A k \in at : k <= i

\* line.find(" "): the first space.
FindSpace(ln) ==
    LET at == {i \in 0..(Len(ln) - 1) : ln[i + 1] = SP}
    IN  IF at = {} THEN -1 ELSE CHOOSE i \in at : \A k \in at : i <= k

\* Mutant: with no space among the first w characters the line is cut at the
\* width, inside the word.
CutPointHard(ln, w) ==
    IF RFindSpace(ln, w) = -1 THEN w ELSE RFindSpace(ln, w)

\* Where the while loop cuts: the rightmost space before the width, else the
\* first space of the line.
CutPoint(ln, w) ==
    IF RFindSpace(ln, w) = -1 THEN FindSpace(ln) ELSE RFindSpace(ln, w)

HasSpace(ln) == \E i \in 1..Len(ln) : ln[i] = SP

WrapAlphabet == {97, SP, NL, TAB}

\* origin is not in the code: origin[k] is the number of the input line that
\* new[k] was cut from.
InitWrap ==
    /\ wtext \in Strings(WrapAlphabet, MaxWrapLen)
    /\ width \in 1..MaxWidth
    /\ lines = SplitLines(ReplaceChar(wtext, TAB, SP))
    /\ lineNo = 0
    /\ line = <<>>
    /\ new = <<>>
    /\ origin = <<>>
    /\ wrapped = <<>>
    /\ wpc = "for"

IdleWrap ==
    /\ wtext = <<>> /\ width = 1 /\ lines = <<>> /\ lineNo = 0 /\ line = <<>>
    /\ new = <<>> /\ origin = <<>> /\ wrapped = <<>> /\ wpc = "idle"

\* for line in lines: an empty line is appended as it is.
NextLine ==
    /\ wpc = "for"
    /\ lineNo < Len(lines)
    /\ lineNo' = lineNo + 1
    /\ line' = lines[lineNo + 1]
    /\ IF lines[lineNo + 1] = <<>>
       THEN /\ new' = Append(new, <<>>)
            /\ origin' = Append(origin, lineNo + 1)
            /\ wpc' = "for"
       ELSE /\ wpc' = "while"
            /\ UNCHANGED <<new, origin>>
    /\ UNCHANGED <<wtext, width, lines, wrapped>>
    /\ UNCHANGED notWrapVars

\* One turn of the while loop.
BreakLine ==
    /\ wpc = "while"
    /\ Len(line) > width /\ HasSpace(line)
    /\ LET cut == CutPoint(line, width)
       IN  /\ new' = Append(new, Slice(line, 0, cut))
           /\ origin' = Append(origin, lineNo)
           /\ line' = Slice(line, cut + 1, Len(line))
    /\ UNCHANGED <<wtext, width, lines, lineNo, wrapped, wpc>>
    /\ UNCHANGED notWrapVars

\* The while loop ends: what is left of the line is appended, unless empty.
ShipLine ==
    /\ wpc = "while"
    /\ ~ (Len(line) > width /\ HasSpace(line))
    /\ IF line # <<>>
       THEN new' = Append(new, line) /\ origin' = Append(origin, lineNo)
       ELSE UNCHANGED <<new, origin>>
    /\ wpc' = "for"
    /\ UNCHANGED <<wtext, width, lines, lineNo, line, wrapped>>
    /\ UNCHANGED notWrapVars

ReturnWrapped ==
    /\ wpc = "for"
    /\ lineNo = Len(lines)
    /\ wrapped' = JoinLines(new)
    /\ wpc' = "done"
    /\ UNCHANGED <<wtext, width, lines, lineNo, line, new, origin>>
    /\ UNCHANGED notWrapVars

NextWrap == NextLine \/ BreakLine \/ ShipLine \/ ReturnWrapped

----------------------------------------------------------------------------
(* process_file, process_folder *)

\* What the extractor gives for a document: None (a swallowed timeout), or the
\* pair (concepts, text).  The concepts are held as the edits ppextract2matches
\* makes of them.
DocTexts    == {<<97>>, <<233>>, <<97, NL>>}
DocEdits    == {<<>>,
                <<[start |-> 0, end |-> 0, tag |-> <<84>>, match |-> None]>>,
                <<[start |-> 0, end |-> 1, tag |-> <<84>>, match |-> None]>>}
WorkerResults ==
    {[none |-> TRUE, concepts |-> <<>>, text |-> <<>>]}
    \cup [none : {FALSE}, concepts : DocEdits, text : DocTexts]

\* process_file: the annotated text, or the exception that leaves it.  cleaned
\* is clean_input(data) of the file read (plaintext only); w is what the worker
\* returns.  Unpacking None raises TypeError.
process_file(plain, w, cleaned) ==
    IF w.none THEN [kind |-> "TypeError", data |-> <<>>]
    ELSE IF plain /\ ~ loose_match(w.text, cleaned)
                  /\ diagnose(w.text, cleaned) = "IndexError"
         THEN [kind |-> "IndexError", data |-> <<>>]
    ELSE LET base_text == IF plain /\ loose_match(w.text, cleaned)
                          THEN cleaned ELSE w.text
             r == apply_edits(base_text, w.concepts)
         IN  IF r.status = "returned" THEN [kind |-> "ok", data |-> r.out]
             ELSE [kind |-> "OpenNLPError", data |-> <<>>]

InitFolder ==
    /\ plaintext \in BOOLEAN
    /\ fileNo = 0
    /\ outcomes = <<>>
    /\ written = <<>>
    /\ batch = "running"

IdleFolder ==
    /\ plaintext = FALSE /\ fileNo = 0 /\ outcomes = <<>> /\ written = <<>>
    /\ batch = "idle"

\* The glob yields a name that is not a file: continue.
SkipNonFile ==
    /\ batch = "running"
    /\ fileNo < MaxFiles
    /\ fileNo' = fileNo + 1
    /\ outcomes' = Append(outcomes, "notfile")
    /\ UNCHANGED <<plaintext, written, batch>>
    /\ UNCHANGED notFolderVars

\* The glob yields a file: process_file in the try statement, which catches
\* OpenNLPError and TypeError only; then the output file is written.
ProcessEntry ==
    /\ batch = "running"
    /\ fileNo < MaxFiles
    /\ \E w \in WorkerResults, cleaned \in DocTexts :
        LET r == process_file(plaintext, w, cleaned)
        IN  /\ fileNo' = fileNo + 1
            /\ outcomes' = Append(outcomes, r.kind)
            /\ written' = IF r.kind = "ok"
                          THEN Append(written, [file |-> fileNo + 1, data |-> r.data])
                          ELSE written
            /\ batch' = IF r.kind \in {"ok", "OpenNLPError", "TypeError"}
                        THEN batch ELSE r.kind
    /\ UNCHANGED plaintext
    /\ UNCHANGED notFolderVars

\* The glob is exhausted.
EndOfGlob ==
    /\ batch = "running"
    /\ batch' = "done"
    /\ UNCHANGED <<plaintext, fileNo, outcomes, written>>
    /\ UNCHANGED notFolderVars

NextFolder == SkipNonFile \/ ProcessEntry \/ EndOfGlob

----------------------------------------------------------------------------
(* Specifications: one per function, the others idle *)

InitCompare == InitCmp /\ IdleEdits /\ IdleLong /\ IdleWrap /\ IdleFolder
SpecCompare == InitCompare /\ [][NextCmp]_vars

InitApply == InitEdits /\ IdleCmp /\ IdleLong /\ IdleWrap /\ IdleFolder
SpecEdits == InitApply /\ [][NextEdits]_vars

InitLonglines == InitLong /\ IdleCmp /\ IdleEdits /\ IdleWrap /\ IdleFolder
SpecLong == InitLonglines /\ [][NextLong]_vars

\* wraplines runs to its end once called: its steps are weakly fair.
InitWraplines == InitWrap /\ IdleCmp /\ IdleEdits /\ IdleLong /\ IdleFolder
SpecWrap == InitWraplines /\ [][NextWrap]_vars /\ WF_vars(NextWrap)

InitBatch == InitFolder /\ IdleCmp /\ IdleEdits /\ IdleLong /\ IdleWrap
SpecFolder == InitBatch /\ [][NextFolder]_vars

----------------------------------------------------------------------------
(* Properties of apply_edits, under SpecEdits *)

\* The string with the tag markers removed.
RECURSIVE Unmarked(_)
Unmarked(out) ==
    IF out = <<>> THEN <<>>
    ELSE IF Head(out).mark THEN Unmarked(Tail(out))
    ELSE <<Head(out).ch>> \o Unmarked(Tail(out))

MarkerCount(out) == Cardinality({i \in 1..Len(out) : out[i].mark})

\* The characters one span adds: " T " and " <END> ".
MarkersPerSpan == Len(OpenTag(<<84>>)) + Len(EndTag)

LastEdit == edits[Len(edits)]

\* Sorted by start, non-overlapping, in bounds, match=None.
WellFormedEdits ==
    \A k \in 1..Len(edits) :
        /\ 0 <= edits[k].start
        /\ edits[k].start <= edits[k].end
        /\ edits[k].end < Len(text)
        /\ edits[k].match = None
        /\ k > 1 => edits[k].start > edits[k - 1].end

\* C1: for a sorted, non-overlapping, in-bounds edit list with match=None,
\* apply_edits does not raise, and the string it returns, with the tag markers
\* removed, is the input text; each span got its two markers.
C1_RoundTrip ==
    WellFormedEdits =>
        /\ status \in {"running", "returned"}
        /\ status = "returned" =>
            /\ Unmarked(output) = text
            /\ MarkerCount(output) = MarkersPerSpan * Len(edits)

C1_Witness ==
    /\ status = "returned"
    /\ WellFormedEdits
    /\ Len(edits) = 2
    /\ edits[1].end > edits[1].start
    /\ edits[2].start = edits[1].end + 1

\* C2: an edit that starts before the cursor raises the overlap error and
\* nothing is returned; an edit that starts at or after the cursor never raises
\* it; no edit is skipped: every edit read so far has its span in the output.
C2_OverlapFailFast ==
    /\ status = "overlap" => LastEdit.start < offset /\ output = <<>>
    /\ status \in {"bounds", "mismatch"} => LastEdit.start >= offset
    /\ (status \in {"running", "returned"} /\ edits # <<>>) =>
            LastEdit.start >= prevOffset
    /\ status \in {"running", "returned"} =>
            /\ idx = Len(edits) + 1
            /\ MarkerCount(output) = MarkersPerSpan * Len(edits)

C2_Witness ==
    /\ status = "overlap"
    /\ Len(edits) = 2
    /\ offset > 0
    /\ edits[2].start = offset - 1

\* C3: an edit that does not overlap raises the out-of-bounds error exactly
\* when its inclusive end is >= len(text); a last edit that ends on the last
\* character is accepted and nothing follows its end marker.
C3_BoundsCheck ==
    /\ status = "bounds" => LastEdit.end >= Len(text)
    /\ status = "mismatch" => LastEdit.end < Len(text)
    /\ (status \in {"running", "returned"} /\ edits # <<>>) =>
            LastEdit.end < Len(text)
    /\ (status = "returned" /\ edits # <<>> /\ LastEdit.end = Len(text) - 1) =>
            /\ offset = Len(text)
            /\ output[Len(output)].mark

C3_Witness ==
    /\ status = "returned"
    /\ edits # <<>>
    /\ LastEdit.start <= LastEdit.end
    /\ LastEdit.end = Len(text) - 1

\* C10: whenever apply_edits has not raised, the cursor has not moved back and
\* is within the text, and the output so far, markers removed, is the text up
\* to the cursor (the whole text once returned).
C10_FaithfulAnnotation ==
    status \in {"running", "returned"} =>
        /\ prevOffset <= offset
        /\ offset <= Len(text)
        /\ Unmarked(output) =
              (IF status = "returned" THEN text ELSE Slice(text, 0, offset))

----------------------------------------------------------------------------
(* Properties of ascii_equal and diagnose, under SpecCompare *)

\* The fold and the range as the specification words them.
FoldChar(c)  == IF c = 160 THEN 32 ELSE IF c >= 65 /\ c <= 90 THEN c + 32 ELSE c
Printable(c) == c >= 32 /\ c <= 126

\* C4: strings of different length are never ascii_equal.
C4_StrictLength ==
    (cmpOp = "ascii_equal" /\ Len(left) # Len(right)) => cmpResult = "False"

\* C5 as claimed: for equal lengths, ascii_equal is true exactly when at every
\* position the folded characters are identical or at least one of them is
\* outside printable ASCII.
C5_EitherNonAscii ==
    (cmpOp = "ascii_equal" /\ Len(left) = Len(right)) =>
        (cmpResult = "True" <=>
            \A i \in 1..Len(left) :
                \/ FoldChar(left[i]) = FoldChar(right[i])
                \/ ~ Printable(FoldChar(left[i]))
                \/ ~ Printable(FoldChar(right[i])))

\* C5 amended: for equal lengths, ascii_equal is true exactly when at every
\* position the folded characters are identical or exactly one of them is
\* outside printable ASCII; two different non-ASCII characters make it false.
C5_ExactlyOneNonAscii ==
    (cmpOp = "ascii_equal" /\ Len(left) = Len(right)) =>
        (cmpResult = "True" <=>
            \A i \in 1..Len(left) :
                \/ FoldChar(left[i]) = FoldChar(right[i])
                \/ Printable(FoldChar(left[i])) # Printable(FoldChar(right[i])))

C5_Witness ==
    /\ cmpOp = "ascii_equal"
    /\ cmpResult = "False"
    /\ Len(left) = 2 /\ Len(right) = 2
    /\ left[1] = 65 /\ right[1] = 97
    /\ ~ Printable(left[2]) /\ ~ Printable(right[2]) /\ left[2] # right[2]

\* C9: when loose_match(left, right) is false, diagnose(left, right) returns
\* normally.
C9_DiagnoseReturns ==
    (cmpOp = "diagnose" /\ ~ loose_match(left, right)) => cmpResult = "ok"

----------------------------------------------------------------------------
(* Properties of longlines, under SpecLong *)

\* A simple line-wrap break: a newline that no indentation follows and that is
\* not one of two or more newlines with only whitespace between them.
IsWrapBreak(s, i) ==
    /\ s[i] = NL
    /\ ~ (i < Len(s) /\ s[i + 1] \in {SP, TAB})
    /\ ~ \E k \in (i + 1)..Len(s) :
            s[k] = NL /\ \A m \in (i + 1)..(k - 1) : s[m] \in {SP, TAB, NL}
    /\ ~ \E k \in 1..(i - 1) :
            s[k] = NL /\ \A m \in (k + 1)..(i - 1) : s[m] \in {SP, TAB, NL}

OffsetsPreserved ==
    /\ Len(yielded) = Len(lltext)
    /\ \A i \in 1..Len(lltext) :
          yielded[i] = (IF IsWrapBreak(lltext, i) THEN SP ELSE lltext[i])

\* C6: longlines(text, collapse=False) returns, without raising, a string of
\* the length of text that differs from it only in the simple line-wrap
\* newlines, each replaced by a space.
C6_OffsetPreservation ==
    (llStatus # "running" /\ ~ collapse) =>
        llStatus = "returned" /\ OffsetsPreserved

\* What does hold: on an interpreter that lets StopIteration end the generator
\* the string returned preserves the offsets.
LegacyOffsetsPreserved ==
    (llStatus = "returned" /\ ~ collapse) => OffsetsPreserved

----------------------------------------------------------------------------
(* Properties of wraplines, under SpecWrap *)

\* The non-empty tokens of a line, blanks (space, tab) separating them.
RECURSIVE TokensFrom(_, _, _, _)
TokensFrom(s, i, cur, acc) ==
    IF i > Len(s) THEN (IF cur = <<>> THEN acc ELSE Append(acc, cur))
    ELSE IF s[i] \in {SP, TAB}
         THEN TokensFrom(s, i + 1, <<>>, IF cur = <<>> THEN acc ELSE Append(acc, cur))
         ELSE TokensFrom(s, i + 1, Append(cur, s[i]), acc)

Tokens(s) == TokensFrom(s, 1, <<>>, <<>>)

\* The tokens of the output lines cut from input line n, in order.
RECURSIVE TokensOfOrigin(_, _)
TokensOfOrigin(n, k) ==
    IF k > Len(new) THEN <<>>
    ELSE (IF origin[k] = n THEN Tokens(new[k]) ELSE <<>>) \o TokensOfOrigin(n, k + 1)

WrapResultOk ==
    LET inlines  == SplitLines(wtext)
        outlines == SplitLines(wrapped)
    IN  /\ outlines = new
        /\ \A k \in 1..Len(outlines) :
              \/ Len(outlines[k]) <= width
              \/ \A i \in 1..Len(outlines[k]) : outlines[k][i] # SP
        /\ \A n \in 1..Len(inlines) :
              /\ TokensOfOrigin(n, 1) = Tokens(inlines[n])
              /\ inlines[n] = <<>> =>
                    /\ Cardinality({k \in 1..Len(new) : origin[k] = n}) = 1
                    /\ \A k \in 1..Len(new) : origin[k] = n => new[k] = <<>>
        /\ \A k \in 1..(Len(origin) - 1) : origin[k] <= origin[k + 1]

----------------------------------------------------------------------------
(* Properties of process_folder, under SpecFolder *)

\* C7: no failure of process_file stops the batch, and a document has an
\* output file, exactly one, exactly when process_file succeeded for it.
C7_PartialFailureTolerance ==
    /\ batch \in {"running", "done"}
    /\ fileNo = Len(outcomes)
    /\ \A n \in 1..Len(outcomes) :
          Cardinality({k \in 1..Len(written) : written[k].file = n})
              = (IF outcomes[n] = "ok" THEN 1 ELSE 0)

====
